---- MODULE Spec2Model ----
(***************************************************************************)
(* y-mongodb-provider: the update log, the state-vector cache, compaction  *)
(* (flushDocument) and the per-document transaction chain (_transact),     *)
(* modelled at the granularity of one store call per step.                 *)
(*                                                                         *)
(* A Y.Doc is modelled as the set of struct ids it holds; an update (a     *)
(* byte string) is the ascending sequence of the struct ids it carries, so *)
(* applying updates is set union (commutative and idempotent, as in Yjs).  *)
(***************************************************************************)
EXTENDS Integers, Sequences, FiniteSets, TLC

\* ---------------------------------------------------------------- bounds
\* Number of operations submitted in a run of Spec.
MaxOps == 3
\* Number of operations submitted in a run of SpecLog.
MaxLogOps == 4
\* Number of store calls that may fail in a run of Spec.
MaxFailures == 1
\* Largest payload (in bytes) handed to appendUpdate.
MaxPayload == 3
\* MAX_DOCUMENT_SIZE of utils.js (15000000), scaled down to the payloads.
MAX_DOCUMENT_SIZE == 2
\* The flushSize option of the constructor (default PREFERRED_TRIM_SIZE).
FlushSize == 1
\* Number of operations submitted in a run of SpecMeta.
MaxMetaOps == 4
\* Number of operations submitted in a run of SpecFail.
MaxFailOps == 3
\* Largest retries argument of retryMongoOperation in SpecRetry (the
\* default, and the value storeUpdates and insertUpdates pass, is 3).
MaxRetries == 3
\* concurrencyLimit of storeUpdates (50), scaled down to the maps.
ConcurrencyLimit == 2
\* Largest update (in bytes) of the map handed to storeUpdates.
MaxBulkPayload == 5
\* Number of bulk writes that may fail in a run of SpecBulk.
MaxBulkFailures == 3

\* ------------------------------------------------------------- constants
\* lib0's binary.BITS32 is 0xFFFFFFFF; the model's integers end at 2^31 - 1,
\* which bounds its clocks from above in the same way
BITS32 == 2147483647
\* lib0's binary.BITS7 and binary.BIT8
BITS7 == 127
BIT8 == 128

DocNames == {"doc1", "global"}
\* the docNames of the maps handed to storeUpdates
BulkDocNames == {"doc1", "doc1-part1"}
\* the docNames a record of the store can carry
StoredDocNames == DocNames \cup BulkDocNames
LogDocs == {"doc1"}
GlobalKey == "global"

DocKinds == {"append", "load", "summary", "flush", "clear"}
LogKinds == {"append", "load", "summary", "flush"}
StoreKinds == {"names", "erase"}
MetaKinds == {"setMeta", "getMeta", "delMeta"}
\* the metaKey arguments and the values handed to setMeta (0 is falsy)
MetaKeys == {1, 2}
MetaValues == {0, 7}

\* ------------------------------------------------------- sequence helpers
Range(s) == {s[i] : i \in 1..Len(s)}

\* the elements of a set of numbers in ascending order
SortedSeq(S) ==
    [i \in 1..Cardinality(S) |->
        CHOOSE x \in S : Cardinality({y \in S : y <= x}) = i]

\* -------------------------------------------------- collaboration engine
\* new Y.Doc(); Y.applyUpdate(ydoc, u) for every u of updates
ApplyUpdates(updates) == UNION {Range(updates[i]) : i \in 1..Len(updates)}

\* Y.encodeStateAsUpdate(ydoc)
EncodeStateAsUpdate(ydoc) == SortedSeq(ydoc)

\* Y.encodeStateVector(ydoc)
YEncodeStateVector(ydoc) == SortedSeq(ydoc)

\* mergeUpdates(updates) -> {update, sv}
mergeUpdates(updates) ==
    [update |-> EncodeStateAsUpdate(ApplyUpdates(updates)),
     sv |-> YEncodeStateVector(ApplyUpdates(updates))]

\* ------------------------------------------------- state-vector encoding
\* encoding.writeVarUint(encoder, num)
RECURSIVE writeVarUint(_)
writeVarUint(num) ==
    IF num > BITS7
    THEN <<BIT8 + (num % 128)>> \o writeVarUint(num \div 128)
    ELSE <<num % 128>>

\* decoding.readVarUint(decoder): [num, rest]
RECURSIVE readVarUintFrom(_, _, _)
readVarUintFrom(buf, num, mult) ==
    LET r == Head(buf)
        n == num + (r % 128) * mult
    IN  IF r < BIT8 THEN [num |-> n, rest |-> Tail(buf)]
        ELSE readVarUintFrom(Tail(buf), n, mult * 128)

readVarUint(buf) == readVarUintFrom(buf, 0, 1)

\* writeStateVector / encodeStateVector: varuint clock, then the length-
\* prefixed state vector
encodeStateVector(clock, sv) ==
    writeVarUint(clock) \o writeVarUint(Len(sv)) \o sv

\* decodeMongodbStateVector(buf) -> {sv, clock}
decodeMongodbStateVector(buf) ==
    LET c == readVarUint(buf)
        l == readVarUint(c.rest)
    IN  [clock |-> c.num, sv |-> SubSeq(l.rest, 1, l.num)]

\* ---------------------------------------------------- retryMongoOperation
\* the errors a store call rejects with
ErrorKinds ==
    {"MongoNetworkError", "MongoNetworkTimeoutError", "MongoBulkWriteError",
     "Error"}

\* the outcomes of one invocation of the task
TaskOutcomes == {"ok"} \cup ErrorKinds

\* retryMongoOperation retrying whatever the error is
RetriedAlways(error) == TRUE

\* error instanceof MongoNetworkError || error instanceof
\* MongoNetworkTimeoutError || error instanceof MongoBulkWriteError
Retried(error) ==
    error \in {"MongoNetworkError", "MongoNetworkTimeoutError",
               "MongoBulkWriteError"}

\* no retryMongoOperation call
NoRetry ==
    [retries |-> 0, attempt |-> 0, pc |-> "idle", calls |-> 0, waits |-> 0,
     trace |-> <<>>, lastError |-> "undefined", error |-> "none"]

\* retryMongoOperation(task, retries, delay) up to its first await: the
\* first invocation of the task, or "throw lastError" when the loop body is
\* never entered
retryMongoOperation(retries) ==
    IF 1 <= retries
    THEN [NoRetry EXCEPT !.retries = retries, !.attempt = 1,
                         !.pc = "attempt", !.calls = 1]
    ELSE [NoRetry EXCEPT !.retries = retries, !.attempt = 1,
                         !.pc = "thrown", !.error = "undefined"]

\* the awaited task settles with the given outcome: return, the catch
\* block, and the end of the loop
TaskSettles(rc, outcome) ==
    LET seen == [rc EXCEPT !.trace = Append(rc.trace, outcome)]
    IN  IF outcome = "ok" THEN [seen EXCEPT !.pc = "returned"]
        ELSE IF Retried(outcome)
        THEN IF rc.attempt < rc.retries
             THEN [seen EXCEPT !.lastError = outcome, !.pc = "delay"]
             ELSE [seen EXCEPT !.lastError = outcome,
                               !.attempt = rc.attempt + 1,
                               !.pc = "thrown", !.error = outcome]
        ELSE [seen EXCEPT !.pc = "thrown", !.error = outcome]

\* the setTimeout of the delay fires: the next iteration invokes the task
DelayElapses(rc) ==
    [rc EXCEPT !.attempt = rc.attempt + 1, !.pc = "attempt",
               !.calls = rc.calls + 1, !.waits = rc.waits + 1]

\* the two maps storeUpdates writes: stateVectorMap and updateMap
Writers == {"sv", "upd"}

\* no storeUpdates call
NoBulk ==
    [status |-> "idle", input |-> <<>>,
     writers |-> [w \in Writers |->
                     [entries |-> <<>>, i |-> 0, group |-> {}, pc |-> "idle"]],
     batches |-> <<>>]

\* ------------------------------------------------------------ variables
VARIABLES
    ops,        \* the operations submitted so far, in submission order
    tr,         \* this.tr: key -> the last operation chained under it (0: none)
    coll,       \* the update records of the store
    svs,        \* the state-vector records of the store: docName -> value
    late,       \* part writes still in flight after their operation failed
    failures,   \* store calls that failed so far
    returned,   \* per document: the clocks appendUpdate returned, with a -1
                \* entry wherever the document's update records were deleted
                \* by clearDocument or flushDB
    metas,      \* the meta records of the store
    retry,      \* the retryMongoOperation call under way in SpecRetry
    bulk        \* the storeUpdates call under way in SpecBulk

vars == <<ops, tr, coll, svs, late, failures, returned, metas, retry,
         bulk>>

OpIds == 1..Len(ops)

NoValue == <<>>

\* what getMeta returns: undefined, or a value
NoMeta == [defined |-> FALSE, value |-> 0]

\* ------------------------------------------------------------ key scheme
\* createDocumentUpdateKey(docName, clock) plus the optional part
\* (part 0 stands for "no part field")
createDocumentUpdateKey(docName, clock, part) ==
    [docName |-> docName, clock |-> clock, part |-> part]

\* --------------------------------------------------------- store adapter
\* whether a stored update record matches a locator (a query without part
\* matches the records of that clock whatever their part)
Matches(rec, loc) ==
    /\ rec.docName = loc.docName
    /\ rec.clock = loc.clock
    /\ (loc.part = 0 \/ rec.part = loc.part)

RecBefore(a, b) ==
    a.clock < b.clock \/ (a.clock = b.clock /\ a.part <= b.part)

SortRecords(S) ==
    [i \in 1..Cardinality(S) |->
        CHOOSE a \in S : Cardinality({b \in S : RecBefore(b, a)}) = i]

\* db.find(createDocumentUpdateKey(docName)): ordered by (clock, part)
dbFind(c, docName) == SortRecords({r \in c : r.docName = docName})

\* db.findOne({... clock in [from, to)}, {reverse: true}): the records of
\* the largest clock in range
dbFindOneReverse(c, docName, from, to) ==
    LET S == {r \in c : r.docName = docName /\ r.clock >= from /\ r.clock < to}
    IN  {r \in S : \A q \in S : q.clock <= r.clock}

\* db.put(locator, {value}): upsert; the stores that may result
dbPut(c, loc, value) ==
    LET M == {r \in c : Matches(r, loc)}
    IN  IF M = {}
        THEN {c \cup {[docName |-> loc.docName, clock |-> loc.clock,
                       part |-> loc.part, value |-> value]}}
        ELSE {(c \ {r}) \cup {[r EXCEPT !.value = value]} : r \in M}

\* db.delete({docName, clock: {$gte: from, $lt: to}})
dbDelete(c, docName, from, to) ==
    {r \in c : ~(r.docName = docName /\ r.clock >= from /\ r.clock < to)}

\* createDocumentMetaKey(docName, metaKey)
createDocumentMetaKey(docName, metaKey) ==
    [docName |-> docName, metaKey |-> metaKey]

\* db.put(createDocumentMetaKey(...), {value}): upsert of a meta record
dbPutMeta(m, loc, value) ==
    {r \in m : ~(r.docName = loc.docName /\ r.metaKey = loc.metaKey)}
        \cup {[docName |-> loc.docName, metaKey |-> loc.metaKey,
                value |-> value]}

\* db.get(createDocumentMetaKey(...)): the records found (none or one)
dbGetMeta(m, loc) ==
    {r \in m : r.docName = loc.docName /\ r.metaKey = loc.metaKey}

\* db.del(createDocumentMetaKey(...))
dbDelMeta(m, loc) ==
    {r \in m : ~(r.docName = loc.docName /\ r.metaKey = loc.metaKey)}

\* -------------------------------------------------------------- utils.js
\* clearUpdatesRange with the upper end of the range included
clearUpdatesRangeInclusive(c, docName, from, to) ==
    dbDelete(c, docName, from, to + 1)

\* clearUpdatesRange(db, docName, from, to)
clearUpdatesRange(c, docName, from, to) == dbDelete(c, docName, from, to)

\* the inner loop of convertMongoUpdates: absorbs the records that follow a
\* part 1 and share its clock
RECURSIVE MergeParts(_, _, _, _, _)
MergeParts(docs, clock, j, currentPartId, parts) ==
    IF j > Len(docs) THEN [ok |-> TRUE, j |-> j, parts |-> parts]
    ELSE IF docs[j].part # 0 /\ docs[j].clock = clock
    THEN IF currentPartId # docs[j].part - 1
         THEN [ok |-> FALSE, j |-> j, parts |-> parts]
         ELSE MergeParts(docs, clock, j + 1, docs[j].part,
                         parts \o docs[j].value)
    ELSE [ok |-> TRUE, j |-> j, parts |-> parts]

\* the outer loop of convertMongoUpdates
RECURSIVE ConvertFrom(_, _, _)
ConvertFrom(docs, i, updates) ==
    IF i > Len(docs) THEN [ok |-> TRUE, updates |-> updates]
    ELSE IF docs[i].part = 0
    THEN ConvertFrom(docs, i + 1, Append(updates, docs[i].value))
    ELSE IF docs[i].part = 1
    THEN LET m == MergeParts(docs, docs[i].clock, i + 1, 1, docs[i].value)
         IN  IF m.ok
             THEN ConvertFrom(docs, m.j, Append(updates, m.parts))
             ELSE [ok |-> FALSE, updates |-> <<>>]
    ELSE ConvertFrom(docs, i + 1, updates)

\* convertMongoUpdates(docs): ok is FALSE when it throws
convertMongoUpdates(docs) == ConvertFrom(docs, 1, <<>>)

\* getMongoUpdates(db, docName)
getMongoUpdates(c, docName) ==
    CHOOSE r \in {convertMongoUpdates(docs) : docs \in {dbFind(c, docName)}} :
        TRUE

\* getCurrentUpdateClock without {reverse: true}: the smallest clock
getCurrentUpdateClockForward(c, docName) ==
    LET S == {r \in c : r.docName = docName /\ r.clock >= 0
                                             /\ r.clock < BITS32}
    IN  IF S = {} THEN -1
        ELSE (CHOOSE r \in S : \A q \in S : r.clock <= q.clock).clock

\* getCurrentUpdateClock(db, docName)
getCurrentUpdateClock(c, docName) ==
    LET found == dbFindOneReverse(c, docName, 0, BITS32)
    IN  IF found = {} THEN -1 ELSE (CHOOSE r \in found : TRUE).clock

\* storeUpdate with Math.floor in place of Math.ceil
totalChunksFloor(update) == Len(update) \div MAX_DOCUMENT_SIZE

\* storeUpdate: Math.ceil(update.length / MAX_DOCUMENT_SIZE)
totalChunks(update) ==
    (Len(update) + MAX_DOCUMENT_SIZE - 1) \div MAX_DOCUMENT_SIZE

\* storeUpdate: update.subarray(start, end) of part i (1-based)
chunk(update, i) ==
    LET start == (i - 1) * MAX_DOCUMENT_SIZE
        end == IF start + MAX_DOCUMENT_SIZE < Len(update)
               THEN start + MAX_DOCUMENT_SIZE ELSE Len(update)
    IN  SubSeq(update, start + 1, end)

\* storeUpdate: the part numbers it writes (none: a single record)
partsOf(update) ==
    IF Len(update) <= MAX_DOCUMENT_SIZE THEN {} ELSE 1..totalChunks(update)

\* readStateVector(db, docName) -> {sv, clock}; present is FALSE for sv null
readStateVector(s, docName) ==
    IF s[docName] = NoValue
    THEN [present |-> FALSE, sv |-> <<>>, clock |-> -1]
    ELSE [present |-> TRUE,
          sv |-> decodeMongodbStateVector(s[docName]).sv,
          clock |-> decodeMongodbStateVector(s[docName]).clock]

\* writeStateVector(db, docName, sv, clock)
writeStateVector(s, docName, sv, clock) ==
    [s EXCEPT ![docName] = encodeStateVector(clock, sv)]

\* getAllSVDocs(db) mapped to doc.docName
getAllSVDocs(s) == {d \in DOMAIN s : s[d] # NoValue}

\* what getYDoc builds from the stored log of a document
LoadState(c, docName) == ApplyUpdates(getMongoUpdates(c, docName).updates)

\* ------------------------------------------------- transaction serializer
\* _transact with one chain for every docName
TransactKeyShared(kind, docName) == GlobalKey

\* the key an operation is chained under: _transact(docName, ...) for the
\* per-document operations, _transact("global", ...) for the whole-store ones
TransactKey(kind, docName) ==
    IF kind \in StoreKinds THEN GlobalKey ELSE docName

\* _transact without "await currTr"
ChainReadyNoAwait(o) == TRUE

\* await currTr: the chained operation goes on once the previous tail settled
\* (0 is the already-resolved promise.resolve())
ChainReady(o) ==
    IF ops[o].prev = 0 THEN TRUE ELSE ops[ops[o].prev].status = "done"

\* _transact without the try/catch around f(db)
TransactOutcomeRethrow(threw) == IF threw THEN "rejected" ELSE "resolved"

\* how the promise of _transact settles: the error of f is caught and logged,
\* the promise resolves (with null)
TransactOutcome(threw) == "resolved"

\* the store call an operation issues first
FirstPc(kind) ==
    CASE kind = "append" -> "clock"
      [] kind = "load" -> "find"
      [] kind = "summary" -> "readsv"
      [] kind = "flush" -> "find"
      [] kind = "clear" -> "delsv"
      [] kind = "names" -> "findsv"
      [] kind = "erase" -> "drop"
      [] kind = "setMeta" -> "putmeta"
      [] kind = "getMeta" -> "getmeta"
      [] kind = "delMeta" -> "delmeta"

NewOp(kind, docName, update, prev) ==
    [kind |-> kind, doc |-> docName, payload |-> update, prev |-> prev,
     status |-> "pending", pc |-> "", executed |-> FALSE,
     waited |-> (prev # 0 /\ ops[prev].status # "done"),
     update |-> update, clock |-> -1, newClock |-> -1, parts |-> {},
     ydoc |-> {}, sv |-> <<>>, svclock |-> -1, names |-> {},
     threw |-> FALSE, outcome |-> "none", ret |-> "none",
     meta |-> NoMeta]

\* the payload of the next appendUpdate: len fresh struct ids
Payload(len) == [i \in 1..len |-> Len(ops) * MaxPayload + i]

Init ==
    /\ ops = <<>>
    /\ tr = [k \in DocNames |-> 0]
    /\ coll = {}
    /\ svs = [d \in StoredDocNames |-> NoValue]
    /\ late = {}
    /\ failures = 0
    /\ returned = [d \in DocNames |-> <<>>]
    /\ metas = {}
    /\ retry = NoRetry
    /\ bulk = NoBulk

\* _transact that never advances this.tr[key]
TransactTailNotAdvanced(kind, docName, update) ==
    /\ ops' = Append(ops, [kind |-> kind, doc |-> docName,
                  payload |-> update, prev |-> 0,
                  status |-> "pending", pc |-> "", executed |-> FALSE,
                  waited |-> FALSE,
                  update |-> update, clock |-> -1, newClock |-> -1,
                  parts |-> {}, ydoc |-> {}, sv |-> <<>>, svclock |-> -1,
                  names |-> {}, threw |-> FALSE, outcome |-> "none",
                  ret |-> "none", meta |-> NoMeta])
    /\ UNCHANGED <<tr, coll, svs, late, failures, returned, metas, retry,
                   bulk>>

\* _transact(docName, f): f is chained behind this.tr[key], which becomes
\* the new operation
Transact(kind, docName, update) ==
    /\ ops' = Append(ops, NewOp(kind, docName, update,
                                tr[TransactKey(kind, docName)]))
    /\ tr' = [tr EXCEPT ![TransactKey(kind, docName)] = Len(ops) + 1]
    /\ UNCHANGED <<coll, svs, late, failures, returned, metas, retry, bulk>>

\* a public operation is called
Submit ==
    /\ Len(ops) < MaxOps
    /\ \/ \E d \in DocNames, len \in 1..MaxPayload :
              Transact("append", d, Payload(len))
       \/ \E d \in DocNames, k \in DocKinds \ {"append"} :
              Transact(k, d, <<>>)
       \/ \E k \in StoreKinds : Transact(k, "", <<>>)

\* appendUpdate, load, summary or flush is called on a document of LogDocs
SubmitLog ==
    /\ Len(ops) < MaxLogOps
    /\ \/ \E d \in LogDocs, len \in 1..MaxPayload :
              Transact("append", d, Payload(len))
       \/ \E d \in LogDocs, k \in LogKinds \ {"append"} :
              Transact(k, d, <<>>)

\* the operation settles: the promise of _transact resolves or rejects
Settled(r, threw) ==
    [r EXCEPT !.status = "done", !.pc = "", !.parts = {}, !.threw = threw,
              !.outcome = TransactOutcome(threw),
              !.ret = IF threw THEN "null" ELSE "value"]

\* the continuation of "await currTr" runs: f(db) is called and issues its
\* first store call; had currTr rejected, the await would throw outside the
\* try block and f would not be called
Start(o) ==
    /\ ops[o].status = "pending"
    /\ ChainReady(o)
    /\ ops' = [ops EXCEPT ![o] =
          IF ops[o].prev # 0 /\ ops[ops[o].prev].outcome = "rejected"
          THEN [@ EXCEPT !.status = "done", !.outcome = "rejected",
                         !.ret = "error"]
          ELSE [@ EXCEPT !.status = "running", !.executed = TRUE,
                         !.pc = FirstPc(ops[o].kind)]]
    /\ UNCHANGED <<tr, coll, svs, late, failures, returned, metas, retry,
                   bulk>>

\* the pc after storeUpdate read the clock or wrote the first state vector
PutPc(update) == IF partsOf(update) = {} THEN "put" ELSE "parts"

\* storeUpdate: clock = await getCurrentUpdateClock(db, docName)
StoreClock(o) ==
    /\ ops[o].status = "running" /\ ops[o].pc = "clock"
    /\ LET c == getCurrentUpdateClock(coll, ops[o].doc)
       IN  ops' = [ops EXCEPT ![o].clock = c,
                              ![o].parts = partsOf(ops[o].update),
                              ![o].pc = IF c = -1 THEN "sv0"
                                        ELSE PutPc(ops[o].update)]
    /\ UNCHANGED <<tr, coll, svs, late, failures, returned, metas, retry,
                   bulk>>

\* storeUpdate, clock === -1: await writeStateVector(db, docName, sv, 0)
StoreFirstSv(o) ==
    /\ ops[o].status = "running" /\ ops[o].pc = "sv0"
    /\ svs' = writeStateVector(svs, ops[o].doc,
                  YEncodeStateVector(ApplyUpdates(<<ops[o].update>>)), 0)
    /\ ops' = [ops EXCEPT ![o].pc = PutPc(ops[o].update)]
    /\ UNCHANGED <<tr, coll, late, failures, returned, metas, retry, bulk>>

\* what follows storeUpdate: appendUpdate returns the clock, flushDocument
\* goes on to write the state vector
AfterStore(r) ==
    IF r.kind = "append"
    THEN Settled([r EXCEPT !.newClock = r.clock + 1], FALSE)
    ELSE [r EXCEPT !.newClock = r.clock + 1, !.pc = "wsv"]

\* the ghost record of the clocks appendUpdate returned
Returned(r) ==
    IF r.kind = "append"
    THEN [returned EXCEPT ![r.doc] = Append(@, r.clock + 1)]
    ELSE returned

\* storeUpdate, update.length <= MAX_DOCUMENT_SIZE: one db.put
StorePut(o) ==
    /\ ops[o].status = "running" /\ ops[o].pc = "put"
    /\ coll' \in dbPut(coll,
           createDocumentUpdateKey(ops[o].doc, ops[o].clock + 1, 0),
           ops[o].update)
    /\ ops' = [ops EXCEPT ![o] = AfterStore(@)]
    /\ returned' = Returned(ops[o])
    /\ UNCHANGED <<tr, svs, late, failures, metas, retry, bulk>>

\* storeUpdate, oversized update: the db.put of one part completes; the
\* Promise.all resolves with the last of them
StorePart(o) ==
    /\ ops[o].status = "running" /\ ops[o].pc = "parts"
    /\ \E i \in ops[o].parts :
         /\ coll' \in dbPut(coll,
                createDocumentUpdateKey(ops[o].doc, ops[o].clock + 1, i),
                chunk(ops[o].update, i))
         /\ ops' = [ops EXCEPT ![o] =
               IF ops[o].parts = {i} THEN AfterStore(ops[o])
               ELSE [ops[o] EXCEPT !.parts = ops[o].parts \ {i}]]
         /\ returned' = IF ops[o].parts = {i} THEN Returned(ops[o])
                        ELSE returned
    /\ UNCHANGED <<tr, svs, late, failures, metas, retry, bulk>>

\* flushDocument stamping the state vector with the clock read before the
\* consolidated update was stored
FlushWriteSvStale(o) ==
    /\ ops[o].status = "running" /\ ops[o].pc = "wsv"
    /\ svs' = writeStateVector(svs, ops[o].doc, ops[o].sv, ops[o].clock)
    /\ ops' = [ops EXCEPT ![o].pc = "clear"]
    /\ UNCHANGED <<tr, coll, late, failures, returned, metas, retry, bulk>>

\* flushDocument: await writeStateVector(db, docName, stateVector, clock)
FlushWriteSv(o) ==
    /\ ops[o].status = "running" /\ ops[o].pc = "wsv"
    /\ svs' = writeStateVector(svs, ops[o].doc, ops[o].sv, ops[o].newClock)
    /\ ops' = [ops EXCEPT ![o].pc = "clear"]
    /\ UNCHANGED <<tr, coll, late, failures, returned, metas, retry, bulk>>

\* flushDocument: await clearUpdatesRange(db, docName, 0, clock)
FlushClear(o) ==
    /\ ops[o].status = "running" /\ ops[o].pc = "clear"
    /\ coll' = clearUpdatesRange(coll, ops[o].doc, 0, ops[o].newClock)
    /\ ops' = [ops EXCEPT ![o] = Settled(@, FALSE)]
    /\ UNCHANGED <<tr, svs, late, failures, returned, metas, retry, bulk>>

\* getYDoc / getStateVector / flushDocument: updates = await
\* getMongoUpdates(db, docName), then the merge; getYDoc flushes only above
\* flushSize
ReadUpdates(o) ==
    /\ ops[o].status = "running" /\ ops[o].pc = "find"
    /\ \E got \in {getMongoUpdates(coll, ops[o].doc)} :
       \E ydoc \in {ApplyUpdates(got.updates)} :
       \E merged \in {[ops[o] EXCEPT !.ydoc = ydoc,
                          !.update = EncodeStateAsUpdate(ydoc),
                          !.sv = YEncodeStateVector(ydoc)]} :
           ops' = [ops EXCEPT ![o] =
             IF ~got.ok THEN Settled(ops[o], TRUE)
             ELSE IF ops[o].kind = "load" /\ ~(Len(got.updates) > FlushSize)
             THEN Settled(merged, FALSE)
             ELSE [merged EXCEPT !.pc = "clock"]]
    /\ UNCHANGED <<tr, coll, svs, late, failures, returned, metas, retry,
                   bulk>>

\* getStateVector: {clock, sv} = await readStateVector(db, docName)
SummaryReadSv(o) ==
    /\ ops[o].status = "running" /\ ops[o].pc = "readsv"
    /\ LET got == readStateVector(svs, ops[o].doc)
       IN  ops' = [ops EXCEPT ![o].sv = got.sv, ![o].svclock = got.clock,
                       ![o].pc = IF got.present THEN "curclock" ELSE "find"]
    /\ UNCHANGED <<tr, coll, svs, late, failures, returned, metas, retry,
                   bulk>>

\* getStateVector returning the cached state vector whatever its clock
SummaryCurClockTrusting(o) ==
    /\ ops[o].status = "running" /\ ops[o].pc = "curclock"
    /\ ops' = [ops EXCEPT ![o] = Settled(@, FALSE)]
    /\ UNCHANGED <<tr, coll, svs, late, failures, returned, metas, retry,
                   bulk>>

\* getStateVector, sv !== null: curClock = await getCurrentUpdateClock(...);
\* the cached state vector is returned when its clock is the current one
SummaryCurClock(o) ==
    /\ ops[o].status = "running" /\ ops[o].pc = "curclock"
    /\ ops' = [ops EXCEPT ![o] =
          IF @.svclock = getCurrentUpdateClock(coll, @.doc)
          THEN Settled(@, FALSE)
          ELSE [@ EXCEPT !.pc = "find"]]
    /\ UNCHANGED <<tr, coll, svs, late, failures, returned, metas, retry,
                   bulk>>

\* clearDocument without the db.del of the state-vector record
ClearDelSvKept(o) ==
    /\ ops[o].status = "running" /\ ops[o].pc = "delsv"
    /\ ops' = [ops EXCEPT ![o].pc = "clearall"]
    /\ UNCHANGED <<tr, coll, svs, late, failures, returned, metas, retry,
                   bulk>>

\* clearDocument: await db.del(createDocumentStateVectorKey(docName))
ClearDelSv(o) ==
    /\ ops[o].status = "running" /\ ops[o].pc = "delsv"
    /\ svs' = [svs EXCEPT ![ops[o].doc] = NoValue]
    /\ ops' = [ops EXCEPT ![o].pc = "clearall"]
    /\ UNCHANGED <<tr, coll, late, failures, returned, metas, retry, bulk>>

\* the ghost mark of a deletion of a document's update records
Deleted(ds) ==
    [d \in DocNames |->
        IF d \in ds /\ returned[d] # <<>> /\ returned[d][Len(returned[d])] # -1
        THEN Append(returned[d], -1) ELSE returned[d]]

\* clearDocument: await clearUpdatesRange(db, docName, 0, binary.BITS32)
ClearAll(o) ==
    /\ ops[o].status = "running" /\ ops[o].pc = "clearall"
    /\ coll' = clearUpdatesRange(coll, ops[o].doc, 0, BITS32)
    /\ ops' = [ops EXCEPT ![o] = Settled(@, FALSE)]
    /\ returned' = Deleted({ops[o].doc})
    /\ UNCHANGED <<tr, svs, late, failures, metas, retry, bulk>>

\* getAllDocNames (one collection): docs = await getAllSVDocs(db)
ListNames(o) ==
    /\ ops[o].status = "running" /\ ops[o].pc = "findsv"
    /\ ops' = [ops EXCEPT ![o] =
          Settled([@ EXCEPT !.names = getAllSVDocs(svs)], FALSE)]
    /\ UNCHANGED <<tr, coll, svs, late, failures, returned, metas, retry,
                   bulk>>

\* flushDB: await db.flush() drops every record
EraseAll(o) ==
    /\ ops[o].status = "running" /\ ops[o].pc = "drop"
    /\ coll' = {}
    /\ svs' = [d \in StoredDocNames |-> NoValue]
    /\ ops' = [ops EXCEPT ![o] = Settled(@, FALSE)]
    /\ returned' = Deleted(DocNames)
    /\ metas' = {}
    /\ UNCHANGED <<tr, late, failures, retry, bulk>>

\* the metaKey and the value a meta operation was called with
MetaKeyOf(r) == r.payload[1]
MetaValueOf(r) == r.payload[2]

\* a value that "!res?.value" takes for missing
Falsy(v) == v = 0

\* setMeta: await db.put(createDocumentMetaKey(docName, metaKey), {value})
MetaPut(o) ==
    /\ ops[o].status = "running" /\ ops[o].pc = "putmeta"
    /\ metas' = dbPutMeta(metas,
           createDocumentMetaKey(ops[o].doc, MetaKeyOf(ops[o])),
           MetaValueOf(ops[o]))
    /\ ops' = [ops EXCEPT ![o] = Settled(@, FALSE)]
    /\ UNCHANGED <<tr, coll, svs, late, failures, returned, retry, bulk>>

\* what getMeta makes of the record db.get found
MetaResult(res) ==
    IF res = {} THEN NoMeta
    ELSE LET v == (CHOOSE r \in res : TRUE).value
         IN  IF Falsy(v) THEN NoMeta ELSE [defined |-> TRUE, value |-> v]

\* getMeta: res = await db.get(...); if (!res?.value) return;
\* return res.value
MetaGet(o) ==
    /\ ops[o].status = "running" /\ ops[o].pc = "getmeta"
    /\ ops' = [ops EXCEPT ![o] =
          Settled([@ EXCEPT !.meta = MetaResult(dbGetMeta(metas,
              createDocumentMetaKey(ops[o].doc, MetaKeyOf(ops[o]))))],
              FALSE)]
    /\ UNCHANGED <<tr, coll, svs, late, failures, returned, metas, retry,
                   bulk>>

\* delMeta: db.del(createDocumentMetaKey(docName, metaKey))
MetaDel(o) ==
    /\ ops[o].status = "running" /\ ops[o].pc = "delmeta"
    /\ metas' = dbDelMeta(metas,
           createDocumentMetaKey(ops[o].doc, MetaKeyOf(ops[o])))
    /\ ops' = [ops EXCEPT ![o] = Settled(@, FALSE)]
    /\ UNCHANGED <<tr, coll, svs, late, failures, returned, retry, bulk>>

\* the store call an operation awaits fails: f throws. Of the concurrent
\* part writes one fails; Promise.all rejects at once and the others stay
\* in flight
StoreCallFails(o) ==
    /\ ops[o].status = "running"
    /\ failures < MaxFailures
    /\ failures' = failures + 1
    /\ \E i \in (IF ops[o].pc = "parts" THEN ops[o].parts ELSE {0}) :
         late' = late \cup
             {[loc |-> createDocumentUpdateKey(ops[o].doc,
                           ops[o].clock + 1, j),
               value |-> chunk(ops[o].update, j)] :
              j \in (IF ops[o].pc = "parts" THEN ops[o].parts \ {i}
                     ELSE {})}
    /\ ops' = [ops EXCEPT ![o] = Settled(@, TRUE)]
    /\ UNCHANGED <<tr, coll, svs, returned, metas, retry, bulk>>

\* a part write left in flight reaches the store
LatePutLands ==
    \E w \in late :
        /\ coll' \in dbPut(coll, w.loc, w.value)
        /\ late' = late \ {w}
        /\ UNCHANGED <<ops, tr, svs, failures, returned, metas, retry, bulk>>

\* a part write left in flight fails too
LatePutFails ==
    \E w \in late :
        /\ late' = late \ {w}
        /\ UNCHANGED <<ops, tr, coll, svs, failures, returned, metas,
                       retry, bulk>>

Next ==
    \/ Submit
    \/ \E o \in OpIds : Start(o)
    \/ \E o \in OpIds : StoreClock(o)
    \/ \E o \in OpIds : StoreFirstSv(o)
    \/ \E o \in OpIds : StorePut(o)
    \/ \E o \in OpIds : StorePart(o)
    \/ \E o \in OpIds : FlushWriteSv(o)
    \/ \E o \in OpIds : FlushClear(o)
    \/ \E o \in OpIds : ReadUpdates(o)
    \/ \E o \in OpIds : SummaryReadSv(o)
    \/ \E o \in OpIds : SummaryCurClock(o)
    \/ \E o \in OpIds : ClearDelSv(o)
    \/ \E o \in OpIds : ClearAll(o)
    \/ \E o \in OpIds : ListNames(o)
    \/ \E o \in OpIds : EraseAll(o)
    \/ \E o \in OpIds : StoreCallFails(o)
    \/ LatePutLands
    \/ LatePutFails

NextLog ==
    \/ SubmitLog
    \/ \E o \in OpIds : Start(o)
    \/ \E o \in OpIds : StoreClock(o)
    \/ \E o \in OpIds : StoreFirstSv(o)
    \/ \E o \in OpIds : StorePut(o)
    \/ \E o \in OpIds : StorePart(o)
    \/ \E o \in OpIds : FlushWriteSv(o)
    \/ \E o \in OpIds : FlushClear(o)
    \/ \E o \in OpIds : ReadUpdates(o)
    \/ \E o \in OpIds : SummaryReadSv(o)
    \/ \E o \in OpIds : SummaryCurClock(o)

\* every public operation, store failures included
Spec == Init /\ [][Next]_vars

\* appendUpdate, load, summary and flush on one document, no store failure
SpecLog == Init /\ [][NextLog]_vars

\* setMeta, getMeta, delMeta, appendUpdate, flushDocument or clearDocument is
\* called on a document of LogDocs
SubmitMeta ==
    /\ Len(ops) < MaxMetaOps
    /\ \/ \E d \in LogDocs, k \in MetaKeys, v \in MetaValues :
              Transact("setMeta", d, <<k, v>>)
       \/ \E d \in LogDocs, k \in MetaKeys, kind \in {"getMeta", "delMeta"} :
              Transact(kind, d, <<k>>)
       \/ \E d \in LogDocs : Transact("append", d, Payload(MaxPayload))
       \/ \E d \in LogDocs, kind \in {"flush", "clear"} :
              Transact(kind, d, <<>>)

NextMeta ==
    \/ SubmitMeta
    \/ \E o \in OpIds : Start(o)
    \/ \E o \in OpIds : StoreClock(o)
    \/ \E o \in OpIds : StoreFirstSv(o)
    \/ \E o \in OpIds : StorePut(o)
    \/ \E o \in OpIds : StorePart(o)
    \/ \E o \in OpIds : FlushWriteSv(o)
    \/ \E o \in OpIds : FlushClear(o)
    \/ \E o \in OpIds : ReadUpdates(o)
    \/ \E o \in OpIds : ClearDelSv(o)
    \/ \E o \in OpIds : ClearAll(o)
    \/ \E o \in OpIds : MetaPut(o)
    \/ \E o \in OpIds : MetaGet(o)
    \/ \E o \in OpIds : MetaDel(o)

\* the meta operations next to appendUpdate, flushDocument and
\* clearDocument on one document, no store failure
SpecMeta == Init /\ [][NextMeta]_vars

\* appendUpdate, load, summary, flush or clearDocument is called on a
\* document of LogDocs
SubmitFail ==
    /\ Len(ops) < MaxFailOps
    /\ \/ \E d \in LogDocs, len \in 1..MaxPayload :
              Transact("append", d, Payload(len))
       \/ \E d \in LogDocs, k \in DocKinds \ {"append"} :
              Transact(k, d, <<>>)

NextFail ==
    \/ SubmitFail
    \/ \E o \in OpIds : Start(o)
    \/ \E o \in OpIds : StoreClock(o)
    \/ \E o \in OpIds : StoreFirstSv(o)
    \/ \E o \in OpIds : StorePut(o)
    \/ \E o \in OpIds : StorePart(o)
    \/ \E o \in OpIds : FlushWriteSv(o)
    \/ \E o \in OpIds : FlushClear(o)
    \/ \E o \in OpIds : ReadUpdates(o)
    \/ \E o \in OpIds : SummaryReadSv(o)
    \/ \E o \in OpIds : SummaryCurClock(o)
    \/ \E o \in OpIds : ClearDelSv(o)
    \/ \E o \in OpIds : ClearAll(o)
    \/ \E o \in OpIds : StoreCallFails(o)
    \/ LatePutLands
    \/ LatePutFails

\* the operations on the log of one document, store failures included
SpecFail == Init /\ [][NextFail]_vars

\* retryMongoOperation(task, retries, delay) is called
RetryCall ==
    /\ retry.pc = "idle"
    /\ \E retries \in 0..MaxRetries : retry' = retryMongoOperation(retries)
    /\ UNCHANGED <<ops, tr, coll, svs, late, failures, returned, metas, bulk>>

\* the task invoked last resolves or rejects
RetryTaskSettles ==
    /\ retry.pc = "attempt"
    /\ \E outcome \in TaskOutcomes : retry' = TaskSettles(retry, outcome)
    /\ UNCHANGED <<ops, tr, coll, svs, late, failures, returned, metas, bulk>>

\* the delay after a failed attempt has elapsed
RetryDelayElapses ==
    /\ retry.pc = "delay"
    /\ retry' = DelayElapses(retry)
    /\ UNCHANGED <<ops, tr, coll, svs, late, failures, returned, metas, bulk>>

NextRetry ==
    \/ RetryCall
    \/ RetryTaskSettles
    \/ RetryDelayElapses

\* one retryMongoOperation call, for every retries argument up to MaxRetries
\* and every sequence of task outcomes
SpecRetry == Init /\ [][NextRetry]_vars

\* ----------------------------------------------------------- storeUpdates
\* the retries argument storeUpdates passes to retryMongoOperation
BulkRetries == 3

\* the errors a bulkPut rejects with in SpecBulk: a transient one and one
\* that is not retried
BulkErrors == {"MongoNetworkError", "Error"}

\* map[key] = entry on a JavaScript object: a new key is added last, a key
\* already there keeps its place and gets the new entry
MapSet(m, entry) ==
    IF \E k \in 1..Len(m) : m[k].key = entry.key
    THEN [k \in 1..Len(m) |-> IF m[k].key = entry.key THEN entry ELSE m[k]]
    ELSE Append(m, entry)

\* storeUpdates: stateVectorMap[docName] = {query, value}, with the clock
\* the call holds (-1)
StateVectorEntry(docName, update, clock) ==
    [key |-> docName, sv |-> TRUE, docName |-> docName, clock |-> 0,
     part |-> 0,
     value |-> encodeStateVector(clock,
                   YEncodeStateVector(ApplyUpdates(<<update>>)))]

\* storeUpdates: updateMap[docName] = {query, value}
UpdateEntry(docName, update, clock) ==
    [key |-> docName, sv |-> FALSE, docName |-> docName, clock |-> clock + 1,
     part |-> 0, value |-> update]

\* storeUpdates: updateMap[`${docName}-part${i + 1}`] = {query, value}
PartEntry(docName, update, clock, part) ==
    [key |-> docName \o "-part" \o ToString(part), sv |-> FALSE,
     docName |-> docName, clock |-> clock + 1, part |-> part,
     value |-> chunk(update, part)]

\* storeUpdates: the forEach over the chunks of an oversized update
RECURSIVE PartEntries(_, _, _, _, _)
PartEntries(m, docName, update, clock, part) ==
    IF part > totalChunks(update) THEN m
    ELSE PartEntries(MapSet(m, PartEntry(docName, update, clock, part)),
                     docName, update, clock, part + 1)

\* storeUpdates: the two maps built from Object.entries(updatesMap), from
\* entry k on
RECURSIVE BuildMaps(_, _, _)
BuildMaps(input, k, maps) ==
    IF k > Len(input) THEN maps
    ELSE LET docName == input[k].docName
             update == input[k].update
             clock == -1
         IN  BuildMaps(input, k + 1,
                 [sv |-> MapSet(maps.sv,
                             StateVectorEntry(docName, update, clock)),
                  upd |-> IF Len(update) <= MAX_DOCUMENT_SIZE
                          THEN MapSet(maps.upd,
                                   UpdateEntry(docName, update, clock))
                          ELSE PartEntries(maps.upd, docName, update,
                                           clock, 1)])

\* bulkWriteWithConcurrency: the loop over the entries of a map up to its
\* next await; every batch is handed to retryMongoOperation, which invokes
\* db.bulkPut(chunk) at once
RECURSIVE WriterLoop(_, _, _)
WriterLoop(w, wr, batches) ==
    IF wr.i < Len(wr.entries)
    THEN LET last == IF wr.i + ConcurrencyLimit < Len(wr.entries)
                     THEN wr.i + ConcurrencyLimit ELSE Len(wr.entries)
             issued == Append(batches,
                           [w |-> w,
                            chunk |-> SubSeq(wr.entries, wr.i + 1, last),
                            rc |-> retryMongoOperation(BulkRetries)])
             pushed == [wr EXCEPT !.group = wr.group \cup {Len(issued)},
                                  !.i = wr.i + ConcurrencyLimit]
         IN  IF Cardinality(pushed.group) >= ConcurrencyLimit
             THEN [wr |-> [pushed EXCEPT !.pc = "await"], batches |-> issued]
             ELSE WriterLoop(w, pushed, issued)
    ELSE [wr |-> [wr EXCEPT !.pc = IF wr.group # {} THEN "final"
                                   ELSE "done"],
          batches |-> batches]

\* bulkWriteWithConcurrency(map, concurrencyLimit) is called, or goes on
\* after its delay
RunWriter(bk, w) ==
    LET run == WriterLoop(w, bk.writers[w], bk.batches)
    IN  [bk EXCEPT !.writers[w] = run.wr, !.batches = run.batches]

\* the Promise.all of storeUpdates over the two writers
CallStatus(bk) ==
    IF bk.status # "running" THEN bk.status
    ELSE IF \E w \in Writers : bk.writers[w].pc = "threw" THEN "rejected"
    ELSE IF \A w \in Writers : bk.writers[w].pc = "done" THEN "resolved"
    ELSE "running"

\* await Promise.all(batchOperations) of writer w after one of its batches
\* settled: it rejects with the first batch that threw and resolves when
\* every batch has returned
Continue(bk, w) ==
    LET wr == bk.writers[w]
        woken ==
            IF wr.pc \notin {"await", "final"} THEN wr
            ELSE IF \E b \in wr.group : bk.batches[b].rc.pc = "thrown"
            THEN [wr EXCEPT !.pc = "threw"]
            ELSE IF \A b \in wr.group : bk.batches[b].rc.pc = "returned"
            THEN IF wr.pc = "await"
                 THEN [wr EXCEPT !.group = {}, !.pc = "delay"]
                 ELSE [wr EXCEPT !.pc = "done"]
            ELSE wr
        next == [bk EXCEPT !.writers[w] = woken]
    IN  [next EXCEPT !.status = CallStatus(next)]

\* db.bulkPut(chunk): the upserts of the entries from entry k on; the
\* stores that may result
RECURSIVE bulkPut(_, _, _)
bulkPut(store, entries, k) ==
    IF k > Len(entries) THEN {store}
    ELSE IF entries[k].sv
    THEN bulkPut([store EXCEPT !.svs[entries[k].docName] = entries[k].value],
                 entries, k + 1)
    ELSE UNION {bulkPut([store EXCEPT !.coll = c], entries, k + 1) :
                c \in dbPut(store.coll,
                          createDocumentUpdateKey(entries[k].docName,
                              entries[k].clock, entries[k].part),
                          entries[k].value)}

\* the maps of docName to update handed to storeUpdates: one or two
\* docNames in either order, each with a short or an oversized update
BulkInputs ==
    {<<[docName |-> d, update |-> [i \in 1..len |-> i]]>> :
        d \in BulkDocNames, len \in {1, MaxBulkPayload}}
    \cup
    {input \in
        {<<[docName |-> d, update |-> [i \in 1..len |-> i]],
           [docName |-> e,
            update |-> [i \in 1..len2 |-> MaxBulkPayload + i]]>> :
            d \in BulkDocNames, e \in BulkDocNames,
            len \in {1, MaxBulkPayload}, len2 \in {1, MaxBulkPayload}} :
        input[1].docName # input[2].docName}

\* storeUpdates(db, updatesMap) is called: the maps are built and both
\* writers run up to their first await
BulkCall ==
    /\ bulk.status = "idle"
    /\ \E input \in BulkInputs :
         LET maps == BuildMaps(input, 1, [sv |-> <<>>, upd |-> <<>>])
             called == [NoBulk EXCEPT
                          !.status = "running", !.input = input,
                          !.writers["sv"].entries = maps.sv,
                          !.writers["upd"].entries = maps.upd]
         IN  bulk' = RunWriter(RunWriter(called, "sv"), "upd")
    /\ UNCHANGED <<ops, tr, coll, svs, late, failures, returned, metas,
                   retry>>

\* the db.bulkPut of a batch completes: its entries are in the store and
\* retryMongoOperation returns
BatchWriteSucceeds ==
    \E b \in 1..Len(bulk.batches) :
        /\ bulk.batches[b].rc.pc = "attempt"
        /\ \E store \in bulkPut([coll |-> coll, svs |-> svs],
                                bulk.batches[b].chunk, 1) :
               /\ coll' = store.coll
               /\ svs' = store.svs
        /\ bulk' = Continue(
               [bulk EXCEPT !.batches[b].rc =
                                TaskSettles(bulk.batches[b].rc, "ok")],
               bulk.batches[b].w)
        /\ UNCHANGED <<ops, tr, late, failures, returned, metas, retry>>

\* the db.bulkPut of a batch rejects
BatchWriteFails ==
    \E b \in 1..Len(bulk.batches), error \in BulkErrors :
        /\ bulk.batches[b].rc.pc = "attempt"
        /\ failures < MaxBulkFailures
        /\ failures' = failures + 1
        /\ bulk' = Continue(
               [bulk EXCEPT !.batches[b].rc =
                                TaskSettles(bulk.batches[b].rc, error)],
               bulk.batches[b].w)
        /\ UNCHANGED <<ops, tr, coll, svs, late, returned, metas, retry>>

\* the retry delay of a batch has elapsed: db.bulkPut(chunk) is invoked
\* again
BatchDelayElapses ==
    \E b \in 1..Len(bulk.batches) :
        /\ bulk.batches[b].rc.pc = "delay"
        /\ bulk' = [bulk EXCEPT !.batches[b].rc =
                                    DelayElapses(bulk.batches[b].rc)]
        /\ UNCHANGED <<ops, tr, coll, svs, late, failures, returned, metas,
                       retry>>

\* await delay(100) of a writer is over: its loop goes on
WriterDelayElapses ==
    \E w \in Writers :
        /\ bulk.writers[w].pc = "delay"
        /\ bulk' = Continue(RunWriter(bulk, w), w)
        /\ UNCHANGED <<ops, tr, coll, svs, late, failures, returned, metas,
                       retry>>

NextBulk ==
    \/ BulkCall
    \/ BatchWriteSucceeds
    \/ BatchWriteFails
    \/ BatchDelayElapses
    \/ WriterDelayElapses

\* one storeUpdates call on an empty store, bulk write failures included
SpecBulk == Init /\ [][NextBulk]_vars

\* ---------------------------------------------------- claim vocabulary
\* the docName an operation was submitted under
DocNameOf(o) == IF ops[o].kind \in StoreKinds THEN "global" ELSE ops[o].doc

Done(o) == ops[o].status = "done"

Succeeded(o) == Done(o) /\ ops[o].ret = "value"

\* no operation submitted later for the same document has started
Quiet(o) ==
    \A p \in OpIds :
        (p > o /\ DocNameOf(p) = DocNameOf(o)) => ops[p].status = "pending"

\* the replay of every update appended to the document of o before o
Appended(o) ==
    UNION {Range(ops[p].payload) :
           p \in {q \in 1..(o - 1) : /\ ops[q].kind = "append"
                                     /\ ops[q].doc = ops[o].doc}}

\* Y.encodeStateAsUpdate(ydoc, stateVector) of getDiff
getDiff(ydoc, stateVector) == SortedSeq(ydoc \ Range(stateVector))

\* the update records stored for a document at a clock
RecordsAt(docName, clock) ==
    {r \in coll : r.docName = docName /\ r.clock = clock}

ClocksOf(docName) == {r.clock : r \in {q \in coll : q.docName = docName}}

CeilDiv(l, m) == CHOOSE n \in 0..l : n * m >= l /\ (n - 1) * m < l

\* ------------------------------------------------------------------- C1
\* C1: a load that returned holds exactly the structs of every update
\* appended to the document before it, and so does its diff against the
\* empty summary, whatever compaction ran in between.
C1_LoadReplaysAllAppends ==
    \A o \in OpIds :
        (ops[o].kind = "load" /\ Succeeded(o)) =>
            /\ ops[o].ydoc = Appended(o)
            /\ ApplyUpdates(<<getDiff(ops[o].ydoc, <<>>)>>) = Appended(o)

\* a load returned two appended updates after a compaction that an earlier
\* load triggered
C1_Witness ==
    \E o, p \in OpIds :
        /\ p < o
        /\ ops[o].kind = "load" /\ Succeeded(o)
        /\ ops[p].kind = "load" /\ Succeeded(p) /\ ops[p].newClock >= 0
        /\ Cardinality(ops[o].ydoc) >= 2

\* ------------------------------------------------------------------- C2
\* C2: two appendUpdate calls on one document, the second submitted while
\* the first had not settled, get the clocks n+1 and n+2 (n the clock the
\* first one read), and the log then ends with their two updates.
C2_ConcurrentAppendsGetDistinctClocks ==
    \A o, p \in OpIds :
        ( /\ ops[o].kind = "append" /\ ops[p].kind = "append"
          /\ ops[p].prev = o /\ ops[p].waited
          /\ Succeeded(o) /\ Succeeded(p) ) =>
            /\ ops[o].newClock = ops[o].clock + 1
            /\ ops[p].newClock = ops[o].clock + 2
            /\ Quiet(p) =>
                 LET log == getMongoUpdates(coll, ops[p].doc).updates
                 IN  /\ Len(log) >= 2
                     /\ log[Len(log) - 1] = ops[o].payload
                     /\ log[Len(log)] = ops[p].payload

C2_Witness ==
    \E o, p \in OpIds :
        /\ ops[o].kind = "append" /\ ops[p].kind = "append"
        /\ ops[p].prev = o /\ ops[p].waited
        /\ Succeeded(o) /\ Succeeded(p)
        /\ ops[o].clock >= 0

\* ------------------------------------------------------------------- C3
\* C3: an operation leaves "pending" (issues its first store call) only
\* when every operation submitted earlier under the same docName has
\* settled; so no two operations of one docName execute at a time.
C3_SerializedInSubmissionOrder ==
    \A o, p \in OpIds :
        ( /\ p < o
          /\ DocNameOf(p) = DocNameOf(o)
          /\ ops[o].status # "pending" ) => Done(p)

\* an operation executes after its failed predecessor while a third waits
C3_Witness ==
    \E o, p, q \in OpIds :
        /\ p < o /\ o < q
        /\ DocNameOf(p) = DocNameOf(o) /\ DocNameOf(q) = DocNameOf(o)
        /\ Done(p) /\ ops[p].threw
        /\ ops[o].status = "running"
        /\ ops[q].status = "pending"

\* ------------------------------------------------------------------- C4
\* C4: a pending operation can start as soon as the operations submitted
\* earlier under its own docName have settled, whatever is pending or
\* executing under any other docName; the whole-store operations count as
\* docName "global".
C4_DistinctDocNamesIndependent ==
    \A o \in OpIds :
        ( /\ ops[o].status = "pending"
          /\ \A p \in 1..(o - 1) :
                 DocNameOf(p) = DocNameOf(o) => Done(p) )
        => ENABLED Start(o)

\* an operation on doc1 has completed while a whole-store operation
\* submitted before it is still executing
C4_Witness ==
    \E o, p \in OpIds :
        /\ o < p
        /\ ops[o].kind \in StoreKinds /\ ops[p].doc = "doc1"
        /\ ops[o].status = "running" /\ Done(p) /\ ops[p].executed

\* ------------------------------------------------------------------- C5
\* a step of operation o: it starts, or the store call it awaits returns,
\* with success or with an error
Run(o) ==
    /\ o \in OpIds
    /\ \/ Start(o)
       \/ StoreClock(o)
       \/ StoreFirstSv(o)
       \/ StorePut(o)
       \/ StorePart(o)
       \/ FlushWriteSv(o)
       \/ FlushClear(o)
       \/ ReadUpdates(o)
       \/ SummaryReadSv(o)
       \/ SummaryCurClock(o)
       \/ ClearDelSv(o)
       \/ ClearAll(o)
       \/ ListNames(o)
       \/ EraseAll(o)
       \/ StoreCallFails(o)

\* a public operation is called on a document of LogDocs, or a whole-store
\* operation is
SubmitLive ==
    /\ Len(ops) < MaxOps
    /\ \/ \E d \in LogDocs : Transact("append", d, Payload(MaxPayload))
       \/ \E d \in LogDocs, k \in DocKinds \ {"append"} :
              Transact(k, d, <<>>)
       \/ \E k \in StoreKinds : Transact(k, "", <<>>)

NextLive ==
    \/ SubmitLive
    \/ \E o \in OpIds : Start(o)
    \/ \E o \in OpIds : StoreClock(o)
    \/ \E o \in OpIds : StoreFirstSv(o)
    \/ \E o \in OpIds : StorePut(o)
    \/ \E o \in OpIds : StorePart(o)
    \/ \E o \in OpIds : FlushWriteSv(o)
    \/ \E o \in OpIds : FlushClear(o)
    \/ \E o \in OpIds : ReadUpdates(o)
    \/ \E o \in OpIds : SummaryReadSv(o)
    \/ \E o \in OpIds : SummaryCurClock(o)
    \/ \E o \in OpIds : ClearDelSv(o)
    \/ \E o \in OpIds : ClearAll(o)
    \/ \E o \in OpIds : ListNames(o)
    \/ \E o \in OpIds : EraseAll(o)
    \/ \E o \in OpIds : StoreCallFails(o)
    \/ LatePutLands
    \/ LatePutFails

\* every store call eventually returns and every ready continuation is
\* eventually run by the event loop
FairSpec ==
    Init /\ [][NextLive]_vars /\ WF_vars(\E o \in OpIds : Run(o))

\* C5: every submitted operation is eventually executed (f(db) is called)
\* and settles, whatever failed before it under its docName.
C5_EveryOperationEventuallyRuns ==
    \A o \in 1..MaxOps :
        (o \in OpIds) ~> (o \in OpIds /\ Done(o) /\ ops[o].executed)

\* an operation was executed and settled behind a failed operation of its
\* docName
C5_Witness ==
    \E o, p \in OpIds :
        /\ ops[o].prev = p
        /\ Done(p) /\ ops[p].threw
        /\ Done(o) /\ ops[o].executed

\* ------------------------------------------------------------------- C6
\* C6: a load, appendUpdate or summary in which a store call failed hands
\* its caller a failed result (a rejected promise), never a normal value.
C6_FailedOperationRejects ==
    \A o \in OpIds :
        ( /\ ops[o].kind \in {"load", "append", "summary"}
          /\ Done(o) /\ ops[o].threw ) => ops[o].outcome = "rejected"

\* ------------------------------------------------------------------- C7
\* the clocks appendUpdate returned for a document, deletions left out
ReturnedClocks(d) == SelectSeq(returned[d], LAMBDA c : c # -1)

StrictlyIncreasing(s) == \A i \in 1..(Len(s) - 1) : s[i] < s[i + 1]

\* C7 as stated: the clocks appendUpdate returns for a document start at 0
\* and are strictly increasing across any sequence of public operations.
C7_ClocksFromZeroIncreasing ==
    \A d \in DocNames :
        ReturnedClocks(d) # <<>> =>
            /\ ReturnedClocks(d)[1] = 0
            /\ StrictlyIncreasing(ReturnedClocks(d))

\* the largest clock among the update records stored for a document
MaxClock(d) ==
    IF ClocksOf(d) = {} THEN -1
    ELSE CHOOSE c \in ClocksOf(d) : \A e \in ClocksOf(d) : e <= c

\* C7 amended: between two deletions of a document's update records
\* (clearDocument, flushDB) the clocks appendUpdate returns are strictly
\* increasing, and the clock storeUpdate reads, one below the clock it
\* assigns, is the largest clock stored for the document (-1: none).
C7_ClocksIncreaseBetweenDeletions ==
    /\ [](\A d \in DocNames :
            \A i \in 1..(Len(returned[d]) - 1) :
                (returned[d][i] # -1 /\ returned[d][i + 1] # -1) =>
                    returned[d][i] < returned[d][i + 1])
    /\ [][\A o \in OpIds :
            (ops[o].pc = "clock" /\ ops'[o].pc # "clock" /\ ~ops'[o].threw)
                => ops'[o].clock = MaxClock(ops[o].doc)]_vars
    /\ [](\A o \in OpIds :
            (ops[o].kind = "append" /\ Succeeded(o)) =>
                ops[o].newClock = ops[o].clock + 1)

\* appendUpdate returned 0 and, after a deletion of the document's update
\* records, 0 again
C7_Witness ==
    \E d \in DocNames :
        /\ Len(returned[d]) >= 3
        /\ returned[d][1] = 0
        /\ returned[d][2] = -1
        /\ returned[d][3] = 0

\* ------------------------------------------------------------------- C8
\* the logical updates readUpdates returns for a document
LogicalUpdates(d) == getMongoUpdates(coll, d).updates

\* C8: when a flush of a document whose largest clock was m >= 0 has
\* completed, the log holds one logical update, stored at clock m+1 and
\* nowhere else, the state-vector record is stamped m+1, and load yields
\* the state it yielded before the flush.
C8_FlushLeavesOneUpdateAtNextClock ==
    \A o \in OpIds :
        ( /\ ops[o].kind = "flush" /\ Succeeded(o) /\ Quiet(o)
          /\ ops[o].clock >= 0 ) =>
            /\ ClocksOf(ops[o].doc) = {ops[o].clock + 1}
            /\ Len(LogicalUpdates(ops[o].doc)) = 1
            /\ readStateVector(svs, ops[o].doc).present
            /\ readStateVector(svs, ops[o].doc).clock = ops[o].clock + 1
            /\ LoadState(coll, ops[o].doc) = ops[o].ydoc
            /\ ops[o].ydoc = Appended(o)

\* updates stored at the clocks 0, 1 and 2 were flushed into clock 3
C8_Witness ==
    \E o \in OpIds :
        /\ ops[o].kind = "flush" /\ Succeeded(o) /\ Quiet(o)
        /\ ops[o].clock = 2
        /\ ClocksOf(ops[o].doc) = {3}
        /\ Cardinality(ops[o].ydoc) >= 3

\* ------------------------------------------------------------------- C9
\* C9: the summary handed to the caller is the state vector of the replay
\* of every update appended to the document before, whether the cached
\* entry was current or stale.
C9_SummaryIsFresh ==
    \A o \in OpIds :
        (ops[o].kind = "summary" /\ Succeeded(o)) =>
            ops[o].sv = YEncodeStateVector(Appended(o))

\* a summary found a cached entry older than the log tail and recomputed it
C9_Witness ==
    \E o \in OpIds :
        /\ ops[o].kind = "summary" /\ Succeeded(o)
        /\ ops[o].svclock >= 0
        /\ ops[o].clock > ops[o].svclock
        /\ Cardinality(Appended(o)) >= 2

\* ------------------------------------------------------------------ C10
\* C10: storeUpdate of L bytes leaves, at the clock it assigned, one record
\* without part number when L <= MAX_DOCUMENT_SIZE, and otherwise
\* ceil(L / MAX_DOCUMENT_SIZE) records numbered 1.. without gap, each
\* non-empty and at most MAX_DOCUMENT_SIZE long; readUpdates returns the
\* stored bytes as its last logical update.
C10_ChunkRoundTrip ==
    \A o \in OpIds :
        (Succeeded(o) /\ Quiet(o) /\ ops[o].newClock >= 0) =>
            LET recs == RecordsAt(ops[o].doc, ops[o].newClock)
                l == Len(ops[o].update)
                log == LogicalUpdates(ops[o].doc)
            IN  /\ l <= MAX_DOCUMENT_SIZE =>
                     recs = {[docName |-> ops[o].doc,
                              clock |-> ops[o].newClock,
                              part |-> 0, value |-> ops[o].update]}
                /\ l > MAX_DOCUMENT_SIZE =>
                     /\ Cardinality(recs) = CeilDiv(l, MAX_DOCUMENT_SIZE)
                     /\ {r.part : r \in recs}
                            = 1..CeilDiv(l, MAX_DOCUMENT_SIZE)
                     /\ \A r \in recs :
                            /\ Len(r.value) >= 1
                            /\ Len(r.value) <= MAX_DOCUMENT_SIZE
                /\ getMongoUpdates(coll, ops[o].doc).ok
                /\ log # <<>>
                /\ log[Len(log)] = ops[o].update

\* an appended payload was split into parts, the last one shorter
C10_Witness ==
    \E o \in OpIds :
        /\ ops[o].kind = "append" /\ Succeeded(o) /\ Quiet(o)
        /\ Len(ops[o].payload) > MAX_DOCUMENT_SIZE
        /\ Cardinality(RecordsAt(ops[o].doc, ops[o].newClock)) >= 2
        /\ \E r \in RecordsAt(ops[o].doc, ops[o].newClock) :
               Len(r.value) < MAX_DOCUMENT_SIZE

\* ------------------------------------------------------------------ C11
\* no operation on the document failed with an oversized update to store:
\* the part writes of such an operation may still be in flight, or may have
\* reached the store after the operation settled
NoLateWrites(d) ==
    \A p \in OpIds :
        (ops[p].doc = d /\ ops[p].kind \in LogKinds /\ ops[p].threw)
            => partsOf(ops[p].update) = {}

\* the update records of the other documents
RecordsOfOthers(c, d) == {r \in c : r.docName # d}

\* C11: once clearDocument(d) has completed and nothing else on d is in
\* flight, d has no state-vector record and no update record, its current
\* clock is -1 and the names getAllDocNames lists do not include d; no step
\* of clearDocument(d) changes a record of another document.
C11_DeleteDocumentRemovesRecords ==
    /\ [](\A o \in OpIds :
            ( /\ ops[o].kind = "clear" /\ Succeeded(o) /\ Quiet(o)
              /\ NoLateWrites(ops[o].doc) ) =>
                /\ svs[ops[o].doc] = NoValue
                /\ ClocksOf(ops[o].doc) = {}
                /\ getCurrentUpdateClock(coll, ops[o].doc) = -1
                /\ ops[o].doc \notin getAllSVDocs(svs))
    /\ [][\A o \in OpIds :
            (ops[o].kind = "clear" /\ ops'[o] # ops[o]) =>
                /\ RecordsOfOthers(coll', ops[o].doc)
                       = RecordsOfOthers(coll, ops[o].doc)
                /\ \A d \in DocNames \ {ops[o].doc} : svs'[d] = svs[d]]_vars

\* clearDocument completed on a document that had an update stored, while
\* another document keeps its records
C11_Witness ==
    \E o \in OpIds :
        /\ ops[o].kind = "clear" /\ Succeeded(o) /\ Quiet(o)
        /\ NoLateWrites(ops[o].doc)
        /\ returned[ops[o].doc] = <<0, -1>>
        /\ \E d \in DocNames \ {ops[o].doc} :
               ClocksOf(d) # {} /\ svs[d] # NoValue

\* ------------------------------------------------------------------ C12
\* C12: once clearDocument(d) has completed, the store holds no record that
\* carries docName d: no state-vector record, no update record and no meta
\* record written before with setMeta(d, ...).
C12_ClearDocumentDeletesAllData ==
    \A o \in OpIds :
        (ops[o].kind = "clear" /\ Succeeded(o) /\ Quiet(o)) =>
            /\ svs[ops[o].doc] = NoValue
            /\ ClocksOf(ops[o].doc) = {}
            /\ {r \in metas : r.docName = ops[o].doc} = {}

\* ------------------------------------------------------------------ C13
\* the setMeta and delMeta calls on the document and metaKey of o that were
\* submitted before o
MetaWritesBefore(o) ==
    {p \in 1..(o - 1) : /\ ops[p].kind \in {"setMeta", "delMeta"}
                        /\ ops[p].doc = ops[o].doc
                        /\ MetaKeyOf(ops[p]) = MetaKeyOf(ops[o])}

\* the last of them
LastMetaWrite(o) ==
    CHOOSE p \in MetaWritesBefore(o) : \A q \in MetaWritesBefore(o) : q <= p

\* C13: getMeta(d, k) returns undefined exactly when no meta record for
\* (d, k) exists, that is when no setMeta(d, k, ...) came before or a
\* delMeta(d, k) came last; otherwise it returns the value v of the last
\* setMeta(d, k, v), whatever v is and whatever appendUpdate or
\* flushDocument did on d in between.
C13_GetMetaReturnsStoredValue ==
    \A o \in OpIds :
        (ops[o].kind = "getMeta" /\ Succeeded(o)) =>
            IF MetaWritesBefore(o) = {}
            THEN ~ops[o].meta.defined
            ELSE IF ops[LastMetaWrite(o)].kind = "delMeta"
            THEN ~ops[o].meta.defined
            ELSE /\ ops[o].meta.defined
                 /\ ops[o].meta.value = MetaValueOf(ops[LastMetaWrite(o)])

\* ------------------------------------------------------------------ C14
\* no operation is executing and no store write is in flight
BetweenOperations ==
    /\ \A o \in OpIds : ops[o].status # "running"
    /\ late = {}

\* C14: between operations, a state-vector record whose clock is the
\* document's current clock holds the state vector of the replay of the
\* update records stored for the document.
C14_CachedSummaryAtCurrentClockIsReplay ==
    BetweenOperations =>
        \A d \in LogDocs :
            ( /\ readStateVector(svs, d).present
              /\ readStateVector(svs, d).clock
                     = getCurrentUpdateClock(coll, d) ) =>
                /\ getMongoUpdates(coll, d).ok
                /\ readStateVector(svs, d).sv
                       = YEncodeStateVector(LoadState(coll, d))

\* ------------------------------------------------------------------ C15
\* flushDocument is under way in o: the log it merges has been read, the
\* consolidated update is being stored or was stored
InFlush(o) ==
    /\ ops[o].status = "running"
    /\ ops[o].kind \in {"flush", "load", "summary"}
    /\ ops[o].pc \in {"clock", "sv0", "put", "parts", "wsv", "clear"}

\* C15: at every intermediate state of flushDocument, after each store call
\* and each part write of the consolidated update, the update records
\* stored can be read and replay to the state of the log read before.
C15_FlushReplaysAtEveryStep ==
    \A o \in OpIds :
        InFlush(o) =>
            /\ getMongoUpdates(coll, ops[o].doc).ok
            /\ LoadState(coll, ops[o].doc) = ops[o].ydoc

\* ------------------------------------------------------------------ C16
\* a failed storeUpdate of an oversized update left some of its parts, and
\* not all of them, at the clock it wrote to
LeftIncomplete(o) ==
    /\ Done(o) /\ ops[o].threw
    /\ ops[o].kind \in LogKinds
    /\ ops[o].kind = "append" \/ ops[o].clock >= 0
    /\ partsOf(ops[o].update) # {}
    /\ LET stored == RecordsAt(ops[o].doc, ops[o].clock + 1)
       IN  /\ stored # {}
           /\ \A r \in stored :
                  /\ r.part \in partsOf(ops[o].update)
                  /\ r.value = chunk(ops[o].update, r.part)
           /\ {r.part : r \in stored} # partsOf(ops[o].update)

\* C16: whenever the parts stored for a clock are not the complete sequence
\* 1..n that was written, getMongoUpdates throws; a chunked update is never
\* returned truncated and never left out.
C16_IncompletePartsFail ==
    \A o \in OpIds :
        LeftIncomplete(o) => ~getMongoUpdates(coll, ops[o].doc).ok

\* ------------------------------------------------------------------ C17
\* the structs of the updates whose appendUpdate on d ended in the given way
AppendedWith(d, failed) ==
    UNION {Range(ops[p].payload) :
           p \in {q \in OpIds : /\ ops[q].kind = "append" /\ ops[q].doc = d
                                /\ Done(q) /\ ops[q].threw = failed}}

\* C17: after a store call failed in appendUpdate, flush, load or summary,
\* getMongoUpdates on the document succeeds, every update it returns is one
\* that was written whole, and the replay holds the updates of the
\* successful appendUpdate calls, with or without the whole update of the
\* failed call, and nothing else.
C17_FailedOperationKeepsLogIntact ==
    ( /\ BetweenOperations
      /\ failures >= 1
      /\ \A o \in OpIds : ops[o].kind # "clear" ) =>
        \A d \in LogDocs :
            /\ getMongoUpdates(coll, d).ok
            /\ \A i \in 1..Len(LogicalUpdates(d)) :
                   \E p \in OpIds : LogicalUpdates(d)[i] = ops[p].update
            /\ LoadState(coll, d) \in
                   {AppendedWith(d, FALSE),
                    AppendedWith(d, FALSE) \cup AppendedWith(d, TRUE)}

\* ------------------------------------------------------------------ C18
\* C18: whenever no operation is executing (and no store call has failed),
\* every document that has an update record has a state-vector record and
\* is among the names getAllDocNames returns, however the operations on the
\* documents interleaved with flushDB and getAllDocNames.
C18_StoredDocumentsAreListed ==
    (BetweenOperations /\ failures = 0) =>
        \A d \in DocNames :
            ClocksOf(d) # {} => d \in getAllSVDocs(svs)

\* ------------------------------------------------------------------ C19
\* the last outcome seen by the retryMongoOperation call
LastOutcome(rc) == rc.trace[Len(rc.trace)]

BatchFailed ==
    \E b \in 1..Len(bulk.batches) : bulk.batches[b].rc.pc = "thrown"

\* C20: once the write of a batch of a storeUpdates call has failed for
\* good, no db.bulkPut of that call is invoked any more, for either map,
\* and none changes the store.
C20_FailureAbortsRemainingWrites ==
    [][BatchFailed =>
          /\ coll' = coll
          /\ svs' = svs
          /\ Len(bulk'.batches) = Len(bulk.batches)
          /\ \A b \in 1..Len(bulk.batches) :
                 bulk'.batches[b].rc.calls = bulk.batches[b].rc.calls]_vars

\* ------------------------------------------------------------------ C21
\* the batches of writer w whose db.bulkPut has been invoked and has not
\* settled
InFlight(w) ==
    {b \in 1..Len(bulk.batches) :
        bulk.batches[b].w = w /\ bulk.batches[b].rc.pc = "attempt"}

\* the record writes of a set of batches
RECURSIVE RecordWrites(_)
RecordWrites(bs) ==
    IF bs = {} THEN 0
    ELSE LET b == CHOOSE x \in bs : TRUE
         IN  Len(bulk.batches[b].chunk) + RecordWrites(bs \ {b})

\* C21: during a storeUpdates call every batch of a map has at most
\* concurrencyLimit entries, and the record writes of one map that are in
\* flight never exceed concurrencyLimit.
C21_InFlightWritesBounded ==
    \A w \in Writers :
        /\ \A b \in 1..Len(bulk.batches) :
               Len(bulk.batches[b].chunk) <= ConcurrencyLimit
        /\ RecordWrites(InFlight(w)) <= ConcurrencyLimit

\* ------------------------------------------------------------------ C22
\* operation o is the only operation called on its document so far
OnlyOperationOn(o) ==
    \A p \in OpIds : p # o => ops[p].kind \in StoreKinds \/ ops[p].doc # ops[o].doc

\* C22: getStateVector called on a document that has no state-vector record
\* and no update record creates no record: once it has returned, the
\* document's current clock is still -1 and getAllDocNames does not list it.
C22_SummaryOfNoDocumentWritesNothing ==
    \A o \in OpIds :
        ( /\ ops[o].kind = "summary"
          /\ Done(o) /\ ~ops[o].threw
          /\ OnlyOperationOn(o)
          /\ \A p \in OpIds : ops[p].kind # "erase" )
        => /\ getCurrentUpdateClock(coll, ops[o].doc) = -1
           /\ ops[o].doc \notin getAllSVDocs(svs)

\* ------------------------------------------------------------------ C23
\* entry k of the updatesMap of the call is stored: its docName has a
\* state-vector record and its update records read back as the one update
\* given for it
Ingested(k) ==
    LET docName == bulk.input[k].docName
        got == getMongoUpdates(coll, docName)
    IN  /\ svs[docName] # NoValue
        /\ got.ok
        /\ got.updates = <<bulk.input[k].update>>

\* C23: after storeUpdates has succeeded on an empty store, every docName
\* of the map has a state-vector record and its updates read back as exactly
\* the update given for it, whatever the docNames and the sizes of the
\* updates.
C23_BulkIngestionStoresEveryDocument ==
    bulk.status = "resolved" => \A k \in 1..Len(bulk.input) : Ingested(k)

====
